---- MODULE Spec2Model ----
(***************************************************************************)
(* Model of the Python bindings of Magnum's matrix classes                 *)
(* (src/python/magnum/math.matrix.h): one matrix instance of one of the    *)
(* bound classes, and the calls a Python session makes on it.              *)
(*                                                                         *)
(* A matrix is column-major: data[col][row], both indices 0-based as in    *)
(* the C++ source.  Scalars are small integers, which float and double     *)
(* represent exactly.                                                      *)
(***************************************************************************)
EXTENDS Integers, Sequences, FiniteSets, TLC

\* Bounds of the model.
MaxVal == 1        \* scalars passed in are 0..MaxVal
MaxOver == 1       \* indices passed in lie at most MaxOver past the last valid one
MaxDiff == 1       \* the instance differs from its constructed value in at most MaxDiff
                   \* elements, and a vector passed in has at most MaxDiff non-zero ones

Val == 0..MaxVal
\* The indices passed in for a dimension of n: std::size_t, so never negative.
Index(n) == 0..(n - 1 + MaxOver)

Min(a, b) == IF a <= b THEN a ELSE b

(***************************************************************************)
(* The bound classes.                                                      *)
(***************************************************************************)
RectClasses ==
    {"Matrix2x2", "Matrix2x3", "Matrix2x4",
     "Matrix3x2", "Matrix3x3", "Matrix3x4",
     "Matrix4x2", "Matrix4x3", "Matrix4x4"}

TransformClasses == {"Matrix3", "Matrix4"}

Classes == RectClasses \cup TransformClasses

\* MatrixCxR has C columns and R rows; Matrix3 / Matrix4 derive from
\* Matrix3x3 / Matrix4x4.
Shape ==
    [Matrix2x2 |-> <<2, 2>>, Matrix2x3 |-> <<2, 3>>, Matrix2x4 |-> <<2, 4>>,
     Matrix3x2 |-> <<3, 2>>, Matrix3x3 |-> <<3, 3>>, Matrix3x4 |-> <<3, 4>>,
     Matrix4x2 |-> <<4, 2>>, Matrix4x3 |-> <<4, 3>>, Matrix4x4 |-> <<4, 4>>,
     Matrix3 |-> <<3, 3>>, Matrix4 |-> <<4, 4>>]

Cols(T) == Shape[T][1]
Rows(T) == Shape[T][2]
DiagonalSize(T) == Min(Cols(T), Rows(T))

\* The class the methods of rectangularMatrix() / matrix() are registered on.
Base(T) == CASE T = "Matrix3" -> "Matrix3x3"
             [] T = "Matrix4" -> "Matrix4x4"
             [] OTHER -> T

\* py::isinstance<T>(value): the value's class is T or derives from it.
isinstance(value, T) == value.type = T \/ (value.type \in Classes /\ Base(value.type) = T)

VectorTraits(n) == CASE n = 2 -> "Vector2"
                     [] n = 3 -> "Vector3"
                     [] n = 4 -> "Vector4"

(***************************************************************************)
(* Python values: a type tag and the data.                                 *)
(***************************************************************************)
None == [type |-> "None", data |-> 0]
Float(x) == [type |-> "float", data |-> x]
SizeT(i) == [type |-> "int", data |-> i]
Pair(i, j) == [type |-> "tuple", data |-> <<i, j>>]
Vec(n, v) == [type |-> VectorTraits(n), data |-> v]
Mat(T, m) == [type |-> T, data |-> m]
Bool(b) == [type |-> "bool", data |-> b]

Vectors(n) == [0..(n - 1) -> Val]
SparseVectors(n) == {v \in Vectors(n) : Cardinality({j \in 0..(n - 1) : v[j] # 0}) <= MaxDiff}
Splat(n, x) == [j \in 0..(n - 1) |-> x]

(***************************************************************************)
(* The wrapped library, Magnum::Math::RectangularMatrix<cols, rows, T>.    *)
(***************************************************************************)
Math_ZeroInit(c, r) == [i \in 0..(c - 1) |-> [j \in 0..(r - 1) |-> 0]]

Math_Fill(c, r, x) == [i \in 0..(c - 1) |-> [j \in 0..(r - 1) |-> x]]

Math_IdentityInit(n, x) ==
    [i \in 0..(n - 1) |-> [j \in 0..(n - 1) |-> IF i = j THEN x ELSE 0]]

Math_fromDiagonal(c, r, v) ==
    [i \in 0..(c - 1) |-> [j \in 0..(r - 1) |-> IF i = j THEN v[i] ELSE 0]]

Math_diagonal(c, r, m) == [i \in 0..(Min(c, r) - 1) |-> m[i][i]]

Math_transposed(c, r, m) == [j \in 0..(r - 1) |-> [i \in 0..(c - 1) |-> m[i][j]]]

Math_flippedCols(c, r, m) == [i \in 0..(c - 1) |-> m[c - 1 - i]]

Math_flippedRows(c, r, m) == [i \in 0..(c - 1) |-> [j \in 0..(r - 1) |-> m[i][r - 1 - j]]]

Math_negated(c, r, m) == [i \in 0..(c - 1) |-> [j \in 0..(r - 1) |-> 0 - m[i][j]]]

Math_add(c, r, a, b) == [i \in 0..(c - 1) |-> [j \in 0..(r - 1) |-> a[i][j] + b[i][j]]]

Math_sub(c, r, a, b) == [i \in 0..(c - 1) |-> [j \in 0..(r - 1) |-> a[i][j] - b[i][j]]]

Math_scale(c, r, m, s) == [i \in 0..(c - 1) |-> [j \in 0..(r - 1) |-> m[i][j] * s]]

\* Scalars are modelled by integers: a division is taken only where it is exact.
Math_div(c, r, m, s) == [i \in 0..(c - 1) |-> [j \in 0..(r - 1) |-> m[i][j] \div s]]

Math_equals(c, r, a, b) == \A i \in 0..(c - 1) : \A j \in 0..(r - 1) : a[i][j] = b[i][j]

RECURSIVE Math_dot(_, _, _)
\* the sum of f[k] * g[k] over k in 0..n-1
Math_dot(n, f, g) == IF n = 0 THEN 0 ELSE Math_dot(n - 1, f, g) + f[n - 1] * g[n - 1]

\* row j of a matrix with c columns
Math_row(c, m, j) == [k \in 0..(c - 1) |-> m[k][j]]

\* a (c columns, r rows) times b (c2 columns, c rows): c2 columns, r rows
Math_mul(c, r, c2, a, b) ==
    [i \in 0..(c2 - 1) |-> [j \in 0..(r - 1) |-> Math_dot(c, Math_row(c, a, j), b[i])]]

\* a (c columns, r rows) times a vector of c components: r components
Math_mulVector(c, r, a, v) == [j \in 0..(r - 1) |-> Math_dot(c, Math_row(c, a, j), v)]

(***************************************************************************)
(* The outcome of a call: the receiver afterwards, the value returned, and *)
(* the exception raised ("none" when the call returns).                    *)
(***************************************************************************)
Return(m, value) == [self |-> m, ret |-> value, err |-> "none"]
Raise(m, e) == [self |-> m, ret |-> None, err |-> e]

(***************************************************************************)
(* rectangularMatrix(): the methods registered on each of the nine         *)
(* MatrixCxR classes.  T is the class, self the receiver's data.           *)
(***************************************************************************)
\* a from_diagonal() with the diagonal written one row down, for comparison
from_diagonal_shifted(T, vector) ==
    Mat(T, [i \in 0..(Cols(T) - 1) |->
              [j \in 0..(Rows(T) - 1) |->
                 IF i < DiagonalSize(T) /\ j = (i + 1) % Rows(T) THEN vector[i] ELSE 0]])

from_diagonal(T, vector) == Mat(T, Math_fromDiagonal(Cols(T), Rows(T), vector))

zero_init(T) == Mat(T, Math_ZeroInit(Cols(T), Rows(T)))

\* py::init<typename T::Type>()
init_value(T, value) == Mat(T, Math_Fill(Cols(T), Rows(T), value))

\* a wrongly indexed column set, for comparison with __setitem__
setitem_shifted(T, self, i, value) ==
    IF i >= Cols(T) THEN Raise(self, "IndexError")
    ELSE Return([self EXCEPT ![(i + 1) % Cols(T)] = value], None)

\* a column set whose bound is off by one, for comparison with __setitem__
setitem_offbyone(T, self, i, value) ==
    IF i > Cols(T) THEN Raise(self, "IndexError")
    ELSE IF i = Cols(T) THEN Return(self, None)
    ELSE Return([self EXCEPT ![i] = value], None)

\* a column set that writes the last column before it refuses, for comparison
\* with __setitem__
setitem_clamped(T, self, i, value) ==
    IF i >= Cols(T) THEN Raise([self EXCEPT ![Cols(T) - 1] = value], "IndexError")
    ELSE Return([self EXCEPT ![i] = value], None)

\* m[i] = value
__setitem__(T, self, i, value) ==
    IF i >= Cols(T) THEN Raise(self, "IndexError")
    ELSE Return([self EXCEPT ![i] = value], None)

\* m[i]
__getitem__(T, self, i) ==
    IF i >= Cols(T) THEN Raise(self, "IndexError")
    ELSE Return(self, Vec(Rows(T), self[i]))

\* an element set that validates the column only, for comparison with
\* __setitem__element (the out-of-range row is dropped)
setitem_element_nocheck(T, self, i, value) ==
    IF i[1] >= Cols(T) THEN Raise(self, "IndexError")
    ELSE IF i[2] >= Rows(T) THEN Return(self, None)
    ELSE Return([self EXCEPT ![i[1]][i[2]] = value], None)

\* m[col, row] = value; i is the pair <<col, row>>
\* an element set that writes the whole column, for comparison with
\* __setitem__element
setitem_element_column(T, self, i, value) ==
    IF i[1] >= Cols(T) \/ i[2] >= Rows(T) THEN Raise(self, "IndexError")
    ELSE Return([self EXCEPT ![i[1]] = Splat(Rows(T), value)], None)

__setitem__element(T, self, i, value) ==
    IF i[1] >= Cols(T) \/ i[2] >= Rows(T) THEN Raise(self, "IndexError")
    ELSE Return([self EXCEPT ![i[1]][i[2]] = value], None)

\* m[col, row]
__getitem__element(T, self, i) ==
    IF i[1] >= Cols(T) \/ i[2] >= Rows(T) THEN Raise(self, "IndexError")
    ELSE Return(self, Float(self[i[1]][i[2]]))

\* an addition that assigns the receiver, for comparison with __add__
add_inplace(T, self, other) ==
    Return(Math_add(Cols(T), Rows(T), self, other),
           Mat(Base(T), Math_add(Cols(T), Rows(T), self, other)))

\* m == other, m != other
__eq__(T, self, other) == Return(self, Bool(Math_equals(Cols(T), Rows(T), self, other)))
__ne__(T, self, other) == Return(self, Bool(~Math_equals(Cols(T), Rows(T), self, other)))

\* -m, m + other, m - other, m * scalar, m / scalar: a new matrix
__neg__(T, self) == Return(self, Mat(Base(T), Math_negated(Cols(T), Rows(T), self)))
__add__(T, self, other) == Return(self, Mat(Base(T), Math_add(Cols(T), Rows(T), self, other)))
__sub__(T, self, other) == Return(self, Mat(Base(T), Math_sub(Cols(T), Rows(T), self, other)))
__mul__(T, self, scalar) == Return(self, Mat(Base(T), Math_scale(Cols(T), Rows(T), self, scalar)))
__truediv__(T, self, scalar) == Return(self, Mat(Base(T), Math_div(Cols(T), Rows(T), self, scalar)))

\* m += other, m -= other, m *= scalar, m /= scalar: the receiver is assigned in place and
\* a copy of it is returned
__iadd__(T, self, other) ==
    Return(Math_add(Cols(T), Rows(T), self, other),
           Mat(Base(T), Math_add(Cols(T), Rows(T), self, other)))
__isub__(T, self, other) ==
    Return(Math_sub(Cols(T), Rows(T), self, other),
           Mat(Base(T), Math_sub(Cols(T), Rows(T), self, other)))
__imul__(T, self, scalar) ==
    Return(Math_scale(Cols(T), Rows(T), self, scalar),
           Mat(Base(T), Math_scale(Cols(T), Rows(T), self, scalar)))
__itruediv__(T, self, scalar) ==
    Return(Math_div(Cols(T), Rows(T), self, scalar),
           Mat(Base(T), Math_div(Cols(T), Rows(T), self, scalar)))

\* a product typed by the column count, for comparison with __mul__vector
mul_vector_cols(T, self, vector) ==
    Return(self, Vec(Cols(T), Math_mulVector(Cols(T), Rows(T), self, vector)))

\* m * vector
__mul__vector(T, self, vector) ==
    Return(self, Vec(Rows(T), Math_mulVector(Cols(T), Rows(T), self, vector)))

flipped_cols(T, self) == Return(self, Mat(Base(T), Math_flippedCols(Cols(T), Rows(T), self)))
flipped_rows(T, self) == Return(self, Mat(Base(T), Math_flippedRows(Cols(T), Rows(T), self)))

\* a diagonal() typed by the column count, for comparison with diagonal
diagonal_cols(T, self) ==
    Return(self, Vec(Cols(T), [i \in 0..(Cols(T) - 1) |-> self[i][Min(i, Rows(T) - 1)]]))

diagonal(T, self) ==
    Return(self, Vec(DiagonalSize(T), Math_diagonal(Cols(T), Rows(T), self)))

\* the row count, for comparison with __len__
len_rows(T) == SizeT(Rows(T))

__len__(T) == SizeT(Cols(T))

(***************************************************************************)
(* matrix(): the methods registered on the square classes only.            *)
(***************************************************************************)
SquareClasses == {T \in Classes : Cols(T) = Rows(T)}

\* a matrix of one value, for comparison with identity_init
identity_filled(T, value) == Mat(T, Math_Fill(Cols(T), Rows(T), value))

identity_init(T, value) == Mat(T, Math_IdentityInit(Cols(T), value))

\* py::arg("value") = T(1)
IdentityDefault == 1

(***************************************************************************)
(* matrices(): the constructors from column vectors, the matrix products   *)
(* and the transpositions, registered class by class.                      *)
(***************************************************************************)
\* py::init<const Vector&, ...>(): columns is the tuple of Cols(T) column vectors
init_columns(T, columns) == Mat(T, [i \in 0..(Cols(T) - 1) |-> columns[i + 1]])

\* The registered __matmul__ overloads: <<class of self, class of other, class returned>>.
\* the products of square matrices only, for comparison with matmulOverloads
matmulOverloads_square == {<<T, T, T>> : T \in {"Matrix2x2", "Matrix3x3", "Matrix4x4"}}

matmulOverloads ==
    {<<"Matrix2x2", "Matrix2x2", "Matrix2x2">>, <<"Matrix2x2", "Matrix3x2", "Matrix3x2">>,
     <<"Matrix2x2", "Matrix4x2", "Matrix4x2">>,
     <<"Matrix2x3", "Matrix2x2", "Matrix2x3">>, <<"Matrix2x3", "Matrix3x2", "Matrix3x3">>,
     <<"Matrix2x3", "Matrix4x2", "Matrix4x3">>,
     <<"Matrix2x4", "Matrix2x2", "Matrix2x4">>, <<"Matrix2x4", "Matrix3x2", "Matrix3x4">>,
     <<"Matrix2x4", "Matrix4x2", "Matrix4x4">>,
     <<"Matrix3x2", "Matrix2x3", "Matrix2x2">>, <<"Matrix3x2", "Matrix3x3", "Matrix3x2">>,
     <<"Matrix3x2", "Matrix4x3", "Matrix4x2">>,
     <<"Matrix3x3", "Matrix2x3", "Matrix2x3">>, <<"Matrix3x3", "Matrix3x3", "Matrix3x3">>,
     <<"Matrix3x3", "Matrix4x3", "Matrix4x3">>,
     <<"Matrix3x4", "Matrix2x3", "Matrix2x4">>, <<"Matrix3x4", "Matrix3x3", "Matrix3x4">>,
     <<"Matrix3x4", "Matrix4x3", "Matrix4x4">>,
     <<"Matrix4x2", "Matrix2x4", "Matrix2x2">>, <<"Matrix4x2", "Matrix3x4", "Matrix3x2">>,
     <<"Matrix4x2", "Matrix4x4", "Matrix4x2">>,
     <<"Matrix4x3", "Matrix2x4", "Matrix2x3">>, <<"Matrix4x3", "Matrix3x4", "Matrix3x3">>,
     <<"Matrix4x3", "Matrix4x4", "Matrix4x3">>,
     <<"Matrix4x4", "Matrix2x4", "Matrix2x4">>, <<"Matrix4x4", "Matrix3x4", "Matrix3x4">>,
     <<"Matrix4x4", "Matrix4x4", "Matrix4x4">>}

\* a product declared to return the class of its right operand, for
\* comparison with __matmul__
matmul_otherclass(T, self, other) ==
    LET found == {o \in matmulOverloads : o[1] = Base(T) /\ isinstance(other, o[2])}
        o == CHOOSE x \in found : TRUE
    IN  IF found = {} THEN Raise(self, "TypeError")
        ELSE Return(self, Mat(o[2], Math_mul(Cols(T), Rows(T), Cols(o[2]), self, other.data)))

\* self @ other: the overload of self's class that accepts other, a TypeError
\* of the binding layer when there is none
__matmul__(T, self, other) ==
    LET found == {o \in matmulOverloads : o[1] = Base(T) /\ isinstance(other, o[2])}
        o == CHOOSE x \in found : TRUE
    IN  IF found = {} THEN Raise(self, "TypeError")
        ELSE Return(self, Mat(o[3], Math_mul(Cols(T), Rows(T), Cols(o[2]), self, other.data)))

\* The class each transposed() is declared to return.
transposedType ==
    [Matrix2x2 |-> "Matrix2x2", Matrix2x3 |-> "Matrix3x2", Matrix2x4 |-> "Matrix4x2",
     Matrix3x2 |-> "Matrix2x3", Matrix3x3 |-> "Matrix3x3", Matrix3x4 |-> "Matrix4x3",
     Matrix4x2 |-> "Matrix2x4", Matrix4x3 |-> "Matrix3x4", Matrix4x4 |-> "Matrix4x4"]

\* a transposed() that keeps the receiver's class, for comparison
transposed_sameclass(T, self) ==
    Return(self, Mat(Base(T), Math_transposed(Cols(T), Rows(T), self)))

transposed(T, self) ==
    Return(self, Mat(transposedType[Base(T)], Math_transposed(Cols(T), Rows(T), self)))

(***************************************************************************)
(* Matrix3 / Matrix4: the properties and the scaling() / rotation()        *)
(* dispatch.                                                               *)
(***************************************************************************)
\* The column a basis-vector property names.
PropertyColumn == [right |-> 0, up |-> 1, backward |-> 2]

Properties(T) == IF T = "Matrix3" THEN {"right", "up"}
                 ELSE IF T = "Matrix4" THEN {"right", "up", "backward"}
                 ELSE {}

\* m.right, m.up, m.backward: the upper Cols-1 components of the column
property_get(T, self, name) ==
    Return(self, Vec(Cols(T) - 1, [j \in 0..(Cols(T) - 2) |-> self[PropertyColumn[name]][j]]))

\* m.right = value: self.right() = value assigns the receiver in place
property_set(T, self, name, value) ==
    Return([self EXCEPT ![PropertyColumn[name]] =
                [j \in 0..(Rows(T) - 1) |-> IF j < Cols(T) - 1 THEN value[j] ELSE @[j]]],
           None)

\* A value known by its type only (the library computes it in floating point).
Opaque(type) == [type |-> type, data |-> <<>>]

\* The parameter types of the dispatch targets, self included.
Signature(T, target) ==
    CASE target = "_sscaling" -> <<VectorTraits(Cols(T) - 1)>>
      [] target = "_iscaling" -> <<T>>
      [] target = "_srotation" -> IF T = "Matrix3" THEN <<"Rad">>
                                  ELSE <<"Rad", VectorTraits(Cols(T) - 1)>>
      [] target = "_irotation" -> <<T>>

\* The type each dispatch target returns.
ReturnType(T, target) ==
    CASE target = "_sscaling" -> T
      [] target = "_iscaling" -> VectorTraits(Cols(T) - 1)
      [] target = "_srotation" -> T
      [] target = "_irotation" -> IF T = "Matrix3" THEN "Matrix2x2" ELSE "Matrix3x3"

\* matrix.attr(target)(*args, **kwargs): the targets are registered without
\* argument names, so the call matches when there are no keyword arguments and
\* the positional ones have the parameter types; otherwise the binding layer
\* raises TypeError
attr_call(T, self, target, args, kwargs) ==
    IF /\ kwargs = {}
       /\ Len(args) = Len(Signature(T, target))
       /\ \A k \in 1..Len(args) : isinstance(args[k], Signature(T, target)[k])
    THEN Return(self, Opaque(ReturnType(T, target)))
    ELSE Raise(self, "TypeError")

\* a dispatch that looks at the argument count only, for comparison with scaling
scaling_lenonly(T, args, kwargs) ==
    IF Len(args) # 0
    THEN [target |-> "_iscaling", args |-> args, kwargs |-> kwargs]
    ELSE [target |-> "_sscaling", args |-> args, kwargs |-> kwargs]

\* scaling(*args, **kwargs): where the call is routed, and with what
scaling(T, args, kwargs) ==
    IF Len(args) # 0 /\ isinstance(args[1], T)
    THEN [target |-> "_iscaling", args |-> args, kwargs |-> kwargs]
    ELSE [target |-> "_sscaling", args |-> args, kwargs |-> kwargs]

\* rotation(*args, **kwargs)
rotation(T, args, kwargs) ==
    IF Len(args) # 0 /\ isinstance(args[1], T)
    THEN [target |-> "_irotation", args |-> args, kwargs |-> kwargs]
    ELSE [target |-> "_srotation", args |-> args, kwargs |-> kwargs]

(***************************************************************************)
(* The session: one instance of class cls, constructed as orig, now        *)
(* holding self.  Each statement makes one call on the instance; last is   *)
(* that call with its arguments, its outcome and the receiver before it,   *)
(* until the statement ends and the session is idle again.                 *)
(***************************************************************************)
\*
\* pending holds, for each context that reads the instance, the call it has
\* under way; iter is the position of an iteration over the instance.
VARIABLES cls, orig, self, last, pending, iter

vars == <<cls, orig, self, last, pending, iter>>

NumContexts == 2   \* contexts reading the instance at a time

Contexts == 1..NumContexts

\* A context with no call under way.
NoCall == [state |-> "idle", op |-> "", args |-> <<>>, ret |-> None, err |-> "none",
           overlapped |-> FALSE]

\* No iteration has been started.
NoIteration == [next |-> 0, items |-> <<>>, done |-> FALSE]

NoRoute == [target |-> "", args |-> <<>>, kwargs |-> {}]

\* op(*args, **kwargs) with outcome out; routed is the call a dispatching
\* function made in turn.
Called(op, args, kwargs, out, before, routed) ==
    [op |-> op, args |-> args, kwargs |-> kwargs, ret |-> out.ret, err |-> out.err,
     before |-> before, routed |-> routed]

\* The elements in which two matrices of a class differ.
Differing(T, a, b) ==
    {p \in (0..(Cols(T) - 1)) \X (0..(Rows(T) - 1)) : a[p[1]][p[2]] # b[p[1]][p[2]]}

\* The bound of the model on the contents the instance takes on.
WithinBounds(m) ==
    /\ \A i \in 0..(Cols(cls) - 1) : \A j \in 0..(Rows(cls) - 1) : m[i][j] \in Val
    /\ Cardinality(Differing(cls, m, orig)) <= MaxDiff

\* No call is under way.
Idle(m) == Called("idle", <<>>, {}, Return(m, None), m, NoRoute)

\* A call on the receiver with outcome out.
Do(op, args, out) ==
    /\ last.op = "idle"
    /\ WithinBounds(out.self)
    /\ self' = out.self
    /\ last' = Called(op, args, {}, out, self, NoRoute)
    /\ UNCHANGED <<cls, orig, pending, iter>>

\* The matrix with x at the last column's first row, zero elsewhere.
Single(c, r, x) ==
    [i \in 0..(c - 1) |-> [j \in 0..(r - 1) |-> IF i = c - 1 /\ j = 0 THEN x ELSE 0]]

\* Matrix arguments of a class: one filled, one with a single element.
Samples(T) ==
    {Math_Fill(Cols(T), Rows(T), MaxVal), Single(Cols(T), Rows(T), MaxVal)}

\* Matrix arguments of the receiver's class, the receiver itself among them.
Operands == Samples(cls) \cup {Math_ZeroInit(Cols(cls), Rows(cls)), self}

Constructed(op, args, value) ==
    /\ cls = value.type
    /\ orig = value.data
    /\ self = value.data
    /\ last = Called(op, args, {}, Return(value.data, value), value.data, NoRoute)
    /\ pending = [c \in Contexts |-> NoCall]
    /\ iter = NoIteration

\* The instance is a MatrixCxR made by zero_init(), or a transformation
\* matrix made by identity_init() with its default value.
Init ==
    \/ \E T \in RectClasses : Constructed("zero_init", <<>>, zero_init(T))
    \/ \E T \in TransformClasses :
          Constructed("identity_init", <<>>, identity_init(T, IdentityDefault))

\* A static function or a constructor of the class, called for another
\* instance.  The receiver is not involved: the session makes these calls while
\* the instance is as constructed.
Static(op, args, value) ==
    /\ self = orig
    /\ Do(op, args, Return(self, value))

ZeroInit == Static("zero_init", <<>>, zero_init(cls))

InitValue == \E value \in Val : Static("__init__", <<Float(value)>>, init_value(cls, value))

IdentityInit ==
    /\ cls \in SquareClasses
    /\ \E value \in Val : Static("identity_init", <<Float(value)>>, identity_init(cls, value))

SetColumn ==
    \E i \in Index(Cols(cls)), value \in SparseVectors(Rows(cls)) :
        Do("__setitem__", <<SizeT(i), Vec(Rows(cls), value)>>, __setitem__(cls, self, i, value))

GetColumn ==
    \E i \in Index(Cols(cls)) : Do("__getitem__", <<SizeT(i)>>, __getitem__(cls, self, i))

SetElement ==
    \E i \in Index(Cols(cls)) \X Index(Rows(cls)), value \in Val :
        Do("__setitem__element", <<Pair(i[1], i[2]), Float(value)>>,
           __setitem__element(cls, self, i, value))

GetElement ==
    \E i \in Index(Cols(cls)) \X Index(Rows(cls)) :
        Do("__getitem__element", <<Pair(i[1], i[2])>>, __getitem__element(cls, self, i))

Equal == \E other \in Operands :
            Do("__eq__", <<Mat(Base(cls), other)>>, __eq__(cls, self, other))

NotEqual == \E other \in Operands :
               Do("__ne__", <<Mat(Base(cls), other)>>, __ne__(cls, self, other))

Negate == Do("__neg__", <<>>, __neg__(cls, self))

Add == \E other \in Operands :
          Do("__add__", <<Mat(Base(cls), other)>>, __add__(cls, self, other))

Sub == \E other \in Operands :
          Do("__sub__", <<Mat(Base(cls), other)>>, __sub__(cls, self, other))

MulScalar == \E scalar \in Val : Do("__mul__", <<Float(scalar)>>, __mul__(cls, self, scalar))

IAdd == \E other \in Operands :
           Do("__iadd__", <<Mat(Base(cls), other)>>, __iadd__(cls, self, other))

ISub == \E other \in Operands :
           Do("__isub__", <<Mat(Base(cls), other)>>, __isub__(cls, self, other))

IMulScalar == \E scalar \in Val : Do("__imul__", <<Float(scalar)>>, __imul__(cls, self, scalar))

\* The divisors whose quotients with every element of m are integers.
Divisors(m) ==
    {s \in Val \ {0} : \A i \in DOMAIN m : \A j \in DOMAIN m[i] : m[i][j] % s = 0}

DivScalar ==
    \E scalar \in Divisors(self) :
        Do("__truediv__", <<Float(scalar)>>, __truediv__(cls, self, scalar))

IDivScalar ==
    \E scalar \in Divisors(self) :
        Do("__itruediv__", <<Float(scalar)>>, __itruediv__(cls, self, scalar))

MulVector ==
    \E vector \in SparseVectors(Cols(cls)) :
        Do("__mul__vector", <<Vec(Cols(cls), vector)>>, __mul__vector(cls, self, vector))

FlippedCols == Do("flipped_cols", <<>>, flipped_cols(cls, self))

FlippedRows == Do("flipped_rows", <<>>, flipped_rows(cls, self))

Diagonal == Do("diagonal", <<>>, diagonal(cls, self))

Length == Static("__len__", <<>>, __len__(cls))

FromDiagonal ==
    \E vector \in Vectors(DiagonalSize(cls)) :
        Static("from_diagonal", <<Vec(DiagonalSize(cls), vector)>>,
               from_diagonal(Base(cls), vector))

MatMul ==
    \E U \in Classes : \E m \in Samples(U) :
        Do("__matmul__", <<Mat(U, m)>>, __matmul__(cls, self, Mat(U, m)))

Transposed == Do("transposed", <<>>, transposed(cls, self))

Setter == [right |-> "right.setter", up |-> "up.setter", backward |-> "backward.setter"]

GetProperty ==
    \E name \in Properties(cls) : Do(name, <<>>, property_get(cls, self, name))

SetProperty ==
    \E name \in Properties(cls), value \in SparseVectors(Cols(cls) - 1) :
        Do(Setter[name], <<Vec(Cols(cls) - 1, value)>>, property_set(cls, self, name, value))

\* The positional arguments a session passes to scaling() / rotation().
ArgValues ==
    {Mat(cls, self), Mat(Base(cls), self), Vec(Cols(cls) - 1, Splat(Cols(cls) - 1, 1)),
     [type |-> "Rad", data |-> 1]}

\* Argument lists are as long as the longest registered signature at most.
MaxArgs == Len(Signature("Matrix4", "_srotation"))

ArgLists == UNION {[1..n -> ArgValues] : n \in 0..MaxArgs}

KeywordSets == {{}, {"angle"}}

\* scaling(*args, **kwargs) or rotation(...): call is where it is routed.
Dispatch(op, args, kwargs, call) ==
    LET out == attr_call(cls, self, call.target, call.args, call.kwargs)
    IN  /\ last.op = "idle"
        /\ self' = out.self
        /\ last' = Called(op, args, kwargs, out, self, call)
        /\ UNCHANGED <<cls, orig, pending, iter>>

Scaling ==
    /\ cls \in TransformClasses
    /\ \E args \in ArgLists, kwargs \in KeywordSets :
          Dispatch("scaling", args, kwargs, scaling(cls, args, kwargs))

Rotation ==
    /\ cls \in TransformClasses
    /\ \E args \in ArgLists, kwargs \in KeywordSets :
          Dispatch("rotation", args, kwargs, rotation(cls, args, kwargs))

\* The statement ends: its result is dropped.
Discard ==
    /\ last.op # "idle"
    /\ last' = Idle(self)
    /\ UNCHANGED <<cls, orig, self, pending, iter>>

Next ==
    \/ Discard
    \/ ZeroInit \/ InitValue \/ IdentityInit
    \/ SetColumn \/ GetColumn \/ SetElement \/ GetElement
    \/ Equal \/ NotEqual
    \/ Negate \/ Add \/ Sub \/ MulScalar \/ DivScalar \/ IAdd \/ ISub \/ IMulScalar \/ IDivScalar
    \/ MulVector
    \/ FlippedCols \/ FlippedRows \/ Diagonal \/ Length \/ FromDiagonal
    \/ MatMul \/ Transposed
    \/ GetProperty \/ SetProperty \/ Scaling \/ Rotation

Spec == Init /\ [][Next]_vars

(***************************************************************************)
(* The products of a Matrix2x3 and a Matrix3x2, in both orders, on         *)
(* instances constructed from column vectors.                              *)
(***************************************************************************)
ProductClasses == {"Matrix2x3", "Matrix3x2"}

Columns(T) == [1..Cols(T) -> Vectors(Rows(T))]
Unit(n, k) == [j \in 0..(n - 1) |-> IF j = k THEN MaxVal ELSE 0]
OperandVectors(n) == {Splat(n, x) : x \in Val} \cup {Unit(n, k) : k \in 0..(n - 1)}
OperandColumns(T) == [1..Cols(T) -> OperandVectors(Rows(T))]

InitProduct ==
    \E T \in ProductClasses : \E columns \in Columns(T) :
        Constructed("__init__", <<columns>>, init_columns(T, columns))

MatMulProduct ==
    \E U \in ProductClasses \ {cls} : \E columns \in OperandColumns(U) :
        Do("__matmul__", <<init_columns(U, columns)>>,
           __matmul__(cls, self, init_columns(U, columns)))

NextProduct == Discard \/ MatMulProduct

SpecProduct == InitProduct /\ [][NextProduct]_vars

(***************************************************************************)
(* The products of a square matrix and the identity matrix of its size.    *)
(***************************************************************************)
Identity(T) == identity_init(T, IdentityDefault)

InitIdentity ==
    \E T \in SquareClasses :
        \/ \E columns \in OperandColumns(T) :
              Constructed("__init__", <<columns>>, init_columns(T, columns))
        \/ Constructed("identity_init", <<>>, Identity(T))

\* A @ identity(N)
TimesIdentity ==
    \E U \in {cls, Base(cls)} :
        Do("__matmul__", <<Identity(U)>>, __matmul__(cls, self, Identity(U)))

\* identity(N) @ A
IdentityTimes ==
    /\ self = Identity(cls).data
    /\ \E columns \in OperandColumns(cls) :
          Do("__matmul__", <<init_columns(cls, columns)>>,
             __matmul__(cls, self, init_columns(cls, columns)))

NextIdentity == Discard \/ TimesIdentity \/ IdentityTimes

SpecIdentity == InitIdentity /\ [][NextIdentity]_vars

(***************************************************************************)
(* The products of a matrix made from column vectors and a vector.         *)
(***************************************************************************)
InitVector ==
    \E T \in Classes : \E columns \in OperandColumns(T) :
        Constructed("__init__", <<columns>>, init_columns(T, columns))

TimesVector ==
    \E vector \in OperandVectors(Cols(cls)) :
        Do("__mul__vector", <<Vec(Cols(cls), vector)>>, __mul__vector(cls, self, vector))

NextVector == Discard \/ TimesVector

SpecVector == InitVector /\ [][NextVector]_vars

(***************************************************************************)
(* Several contexts reading one instance.  A bound function runs from its  *)
(* entry to its return; between the two, other contexts enter and return   *)
(* from theirs.                                                            *)
(***************************************************************************)
ReadCalls(T) ==
    {[op |-> "__getitem__", args |-> <<SizeT(i)>>] : i \in {0, Cols(T)}}
    \cup {[op |-> "__getitem__element", args |-> <<Pair(Cols(T) - 1, 0)>>]}
    \cup {[op |-> f, args |-> <<>>] :
            f \in {"diagonal", "transposed", "flipped_cols", "flipped_rows", "__neg__"}}
    \cup {[op |-> f, args |-> <<Mat(Base(T), Math_Fill(Cols(T), Rows(T), MaxVal))>>] :
            f \in {"__add__", "__sub__", "__eq__"}}
    \cup {[op |-> "__mul__", args |-> <<Float(MaxVal)>>]}
    \cup {[op |-> "__mul__vector", args |-> <<Vec(Cols(T), Splat(Cols(T), MaxVal))>>]}

\* The outcome of a read-only call on an instance of class T holding m.
Read(T, m, call) ==
    CASE call.op = "__getitem__" -> __getitem__(T, m, call.args[1].data)
      [] call.op = "__getitem__element" -> __getitem__element(T, m, call.args[1].data)
      [] call.op = "diagonal" -> diagonal(T, m)
      [] call.op = "transposed" -> transposed(T, m)
      [] call.op = "flipped_cols" -> flipped_cols(T, m)
      [] call.op = "flipped_rows" -> flipped_rows(T, m)
      [] call.op = "__neg__" -> __neg__(T, m)
      [] call.op = "__add__" -> __add__(T, m, call.args[1].data)
      [] call.op = "__sub__" -> __sub__(T, m, call.args[1].data)
      [] call.op = "__eq__" -> __eq__(T, m, call.args[1].data)
      [] call.op = "__mul__" -> __mul__(T, m, call.args[1].data)
      [] call.op = "__mul__vector" -> __mul__vector(T, m, call.args[1].data)

InitReaders ==
    \E T \in Classes : \E m \in Samples(T) :
        Constructed("__init__", <<>>, Mat(T, m))

\* A context enters a bound function.
Enter ==
    \E c \in Contexts : \E call \in ReadCalls(cls) :
        /\ pending[c].state = "idle"
        /\ pending' = [pending EXCEPT ![c] =
              [state |-> "running", op |-> call.op, args |-> call.args, ret |-> None,
               err |-> "none", overlapped |-> FALSE]]
        /\ UNCHANGED <<cls, orig, self, last, iter>>

\* The function a context entered runs on the instance and returns.
Leave ==
    \E c \in Contexts :
        /\ pending[c].state = "running"
        /\ LET out == Read(cls, self, pending[c])
           IN  /\ self' = out.self
               /\ pending' = [pending EXCEPT ![c] =
                     [state |-> "done", op |-> pending[c].op, args |-> pending[c].args,
                      ret |-> out.ret, err |-> out.err,
                      overlapped |-> \E d \in Contexts \ {c} : pending[d].state = "running"]]
        /\ UNCHANGED <<cls, orig, last, iter>>

\* The context drops the value returned to it.
Drop ==
    \E c \in Contexts :
        /\ pending[c].state = "done"
        /\ pending' = [pending EXCEPT ![c] = NoCall]
        /\ UNCHANGED <<cls, orig, self, last, iter>>

NextReaders == Enter \/ Leave \/ Drop

SpecReaders == InitReaders /\ [][NextReaders]_vars

(***************************************************************************)
(* Iteration over an instance by the index protocol: m[0], m[1], ... are   *)
(* requested in turn until a request raises IndexError.                    *)
(***************************************************************************)
InitIteration ==
    \E T \in Classes : \E columns \in OperandColumns(T) :
        Constructed("__init__", <<columns>>, init_columns(T, columns))

IterNext ==
    /\ ~iter.done
    /\ LET out == __getitem__(cls, self, iter.next)
       IN  /\ self' = out.self
           /\ last' = Called("__getitem__", <<SizeT(iter.next)>>, {}, out, self, NoRoute)
           /\ iter' = IF out.err = "IndexError"
                      THEN [iter EXCEPT !.done = TRUE]
                      ELSE [next |-> iter.next + 1, items |-> Append(iter.items, out.ret),
                            done |-> FALSE]
    /\ UNCHANGED <<cls, orig, pending>>

NextIteration == IterNext

SpecIteration == InitIteration /\ [][NextIteration]_vars /\ WF_vars(IterNext)

(***************************************************************************)
(* Properties.                                                             *)
(***************************************************************************)
Returned == last.err = "none"

\* C1: for every class and every index i passed, the column get m[i] and the
\* column set m[i] = v raise IndexError when i >= Cols and return without an
\* error when i < Cols.
ColumnIndexChecked ==
    last.op \in {"__getitem__", "__setitem__"} =>
        /\ last.args[1].data >= Cols(cls) => last.err = "IndexError"
        /\ last.args[1].data < Cols(cls) => Returned

\* a column set one past the last column is refused
ColumnSetRefused ==
    /\ last.op = "__setitem__"
    /\ last.args[1].data = Cols(cls)
    /\ last.err = "IndexError"

\* C2: the element get m[col, row] and the element set m[col, row] = x raise
\* IndexError exactly when col >= Cols or row >= Rows; otherwise they return,
\* the get with the element at column col, row row, the set having written
\* that element.
ElementIndexChecked ==
    last.op \in {"__getitem__element", "__setitem__element"} =>
        LET col == last.args[1].data[1]
            row == last.args[1].data[2]
        IN  /\ last.err \in {"none", "IndexError"}
            /\ last.err = "IndexError" <=> (col >= Cols(cls) \/ row >= Rows(cls))
            /\ (Returned /\ last.op = "__getitem__element")
                  => last.ret = Float(last.before[col][row])
            /\ (Returned /\ last.op = "__setitem__element")
                  => self[col][row] = last.args[2].data

\* an element set with a valid column and the row one past the last is refused
ElementSetRowRefused ==
    /\ last.op = "__setitem__element"
    /\ last.args[1].data[1] < Cols(cls)
    /\ last.args[1].data[2] = Rows(cls)
    /\ last.err = "IndexError"

\* C3: after m[i] = v has returned, whatever the calls before it, a following
\* m[i] returns v.
SetThenGetRoundTrips ==
    (last.op = "__setitem__" /\ Returned) =>
        LET got == __getitem__(cls, self, last.args[1].data)
        IN  /\ got.err = "none"
            /\ got.ret = last.args[2]

\* a column set that changed an instance already changed by an earlier call
ColumnSetAfterChange ==
    /\ last.op = "__setitem__"
    /\ Returned
    /\ last.before # orig
    /\ self # last.before

\* C4: there are 27 __matmul__ overloads; each takes a right operand whose row
\* count is the left operand's column count and returns the class of
\* (columns of the right operand) x (rows of the left operand); a call returns
\* only under this rule, with a result of that class and shape.
MatmulDimensionRule ==
    /\ Cardinality(matmulOverloads) = 27
    /\ \A o \in matmulOverloads :
          /\ Rows(o[2]) = Cols(o[1])
          /\ Shape[o[3]] = <<Cols(o[2]), Rows(o[1])>>
    /\ (last.op = "__matmul__" /\ Returned) =>
          /\ Rows(last.args[1].type) = Cols(cls)
          /\ last.ret.type \in RectClasses
          /\ Shape[last.ret.type] = <<Cols(last.args[1].type), Rows(cls)>>
          /\ DOMAIN last.ret.data = 0..(Cols(last.args[1].type) - 1)
          /\ \A i \in DOMAIN last.ret.data : DOMAIN last.ret.data[i] = 0..(Rows(cls) - 1)
    /\ (last.op = "__matmul__" /\ Rows(last.args[1].type) = Cols(cls)) => Returned

\* a Matrix2x4 times a Matrix3x2 has returned
MatmulReturned ==
    /\ last.op = "__matmul__"
    /\ Returned
    /\ cls = "Matrix2x4"
    /\ last.args[1].type = "Matrix3x2"

\* The element at column j, row i of left @ right, left having n columns.
RECURSIVE RowTimesColumn(_, _, _, _, _)
RowTimesColumn(n, left, right, j, i) ==
    IF n = 0 THEN 0
    ELSE RowTimesColumn(n - 1, left, right, j, i) + left[n - 1][i] * right[j][n - 1]

\* The result's elements are the dot products of the left operand's rows with
\* the right operand's columns.
ProductElements ==
    \A j \in 0..(Cols(last.args[1].type) - 1) : \A i \in 0..(Rows(cls) - 1) :
        last.ret.data[j][i] = RowTimesColumn(Cols(cls), last.before, last.args[1].data, j, i)

\* C5 as stated, (c x r) read as in the rest of the specification, columns x
\* rows: a Matrix2x3 times a Matrix3x2 is a (2x2) matrix of the dot products.
Product2x3By3x2Is2x2 ==
    (last.op = "__matmul__" /\ cls = "Matrix2x3" /\ last.args[1].type = "Matrix3x2") =>
        /\ Returned
        /\ Shape[last.ret.type] = <<2, 2>>
        /\ ProductElements

\* C5, amended: a Matrix2x3 (2 columns, 3 rows) times a Matrix3x2 is a
\* Matrix3x3; the (2x2) matrix is the product of a Matrix3x2 (2 rows, 3
\* columns) and a Matrix2x3 (3 rows, 2 columns).  In both, each element is the
\* dot product of the left operand's row with the right operand's column.
ProductsOf2x3And3x2 ==
    /\ (last.op = "__matmul__" /\ cls = "Matrix2x3" /\ last.args[1].type = "Matrix3x2") =>
          /\ Returned
          /\ last.ret.type = "Matrix3x3"
          /\ ProductElements
    /\ (last.op = "__matmul__" /\ cls = "Matrix3x2" /\ last.args[1].type = "Matrix2x3") =>
          /\ Returned
          /\ last.ret.type = "Matrix2x2"
          /\ ProductElements

\* a Matrix3x2 times a Matrix2x3 with a result element above 1: a dot product
\* with more than one non-zero term
ProductSummed ==
    /\ last.op = "__matmul__"
    /\ cls = "Matrix3x2"
    /\ last.args[1].type = "Matrix2x3"
    /\ Returned
    /\ \E j \in 0..1 : \E i \in 0..1 : last.ret.data[j][i] > MaxVal * MaxVal

\* C6: transposed() of a (Cols x Rows) matrix returns a (Rows x Cols) matrix
\* whose element [r][c] is the receiver's element [c][r], and transposing the
\* result gives the receiver's value and shape back.
TransposedSwaps ==
    last.op = "transposed" =>
        /\ Returned
        /\ Shape[last.ret.type] = <<Rows(cls), Cols(cls)>>
        /\ \A r \in 0..(Rows(cls) - 1) : \A c \in 0..(Cols(cls) - 1) :
              last.ret.data[r][c] = last.before[c][r]
        /\ transposed(last.ret.type, last.ret.data).ret = Mat(Base(cls), last.before)

\* a non-square matrix with a non-zero element has been transposed
TransposedNonSquare ==
    /\ last.op = "transposed"
    /\ Cols(cls) # Rows(cls)
    /\ \E c \in 0..(Cols(cls) - 1) : \E r \in 0..(Rows(cls) - 1) : last.before[c][r] # 0

\* C7: scaling() and rotation() of Matrix3 and Matrix4 route the call to the
\* member (_iscaling, _irotation) when there is a positional argument and the
\* first one is an instance of the class, and to the static function
\* (_sscaling, _srotation) otherwise; the arguments are forwarded unchanged.
DispatchByFirstArgument ==
    last.op \in {"scaling", "rotation"} =>
        LET member == Len(last.args) >= 1 /\ last.args[1].type = cls
        IN  /\ last.routed.args = last.args
            /\ last.routed.kwargs = last.kwargs
            /\ last.op = "scaling" =>
                  last.routed.target = IF member THEN "_iscaling" ELSE "_sscaling"
            /\ last.op = "rotation" =>
                  last.routed.target = IF member THEN "_irotation" ELSE "_srotation"

\* a call with keyword arguments only went to the static function
KeywordOnlyDispatch ==
    /\ last.op = "scaling"
    /\ last.args = <<>>
    /\ last.kwargs # {}
    /\ last.routed.target = "_sscaling"

IndexOps == {"__getitem__", "__setitem__", "__getitem__element", "__setitem__element"}

\* The last call was an index access with a column or row out of range.
OutOfRange ==
    /\ last.op \in IndexOps
    /\ IF last.op \in {"__getitem__", "__setitem__"}
       THEN last.args[1].data >= Cols(cls)
       ELSE last.args[1].data[1] >= Cols(cls) \/ last.args[1].data[2] >= Rows(cls)

\* C8 as stated: the only error any call ends with is the IndexError of an
\* index access out of range.
OnlyIndexError == last.err # "none" => (last.err = "IndexError" /\ OutOfRange)

\* The target C7 names for the last scaling() / rotation() call.
TargetByRule ==
    LET member == Len(last.args) >= 1 /\ last.args[1].type = cls
    IN  IF last.op = "scaling"
        THEN (IF member THEN "_iscaling" ELSE "_sscaling")
        ELSE (IF member THEN "_irotation" ELSE "_srotation")

\* The last call's arguments match no registered signature.
NoSignatureMatches ==
    \/ /\ last.op \in {"scaling", "rotation"}
       /\ \/ last.kwargs # {}
          \/ Len(last.args) # Len(Signature(cls, TargetByRule))
          \/ \E k \in 1..Min(Len(last.args), Len(Signature(cls, TargetByRule))) :
                /\ last.args[k].type # Signature(cls, TargetByRule)[k]
                /\ ~(last.args[k].type \in Classes
                     /\ Base(last.args[k].type) = Signature(cls, TargetByRule)[k])
    \/ /\ last.op = "__matmul__"
       /\ Rows(last.args[1].type) # Cols(cls)

\* C8, amended: the only error the binding itself raises is the IndexError of
\* an index access out of range; the only other error is the binding layer's
\* TypeError for arguments that match no registered signature, which
\* scaling() / rotation() (they accept any arguments and forward them) and
\* __matmul__ end with; every call whose arguments match returns.
OnlyIndexOrTypeError ==
    /\ last.err \in {"none", "IndexError", "TypeError"}
    /\ last.err = "IndexError" => OutOfRange
    /\ last.err = "TypeError" => NoSignatureMatches
    /\ (last.op \in {"scaling", "rotation", "__matmul__"} /\ ~NoSignatureMatches) => Returned

\* scaling() without arguments went to _sscaling, which takes one
ScalingWithoutArguments ==
    /\ last.op = "scaling"
    /\ last.args = <<>>
    /\ last.kwargs = {}
    /\ last.err = "TypeError"

Setters == {"__setitem__", "__setitem__element"}

\* C9 as stated: the instance's contents change only in a column set or an
\* element set.
OnlySettersMutate == self # last.before => last.op \in Setters

InPlaceOps == {"__iadd__", "__isub__", "__imul__", "__itruediv__"}

PropertySetters == {"right.setter", "up.setter", "backward.setter"}

\* C9, amended: the instance's contents change only in a column set, an
\* element set, an in-place operator (+=, -=, *=, /=) or the assignment of a
\* right / up / backward property; every other call leaves the receiver as it
\* was.
OnlySettersAndInPlaceMutate ==
    self # last.before => last.op \in Setters \cup InPlaceOps \cup PropertySetters

\* m += other has changed the instance
InPlaceAddChanged ==
    /\ last.op = "__iadd__"
    /\ self # last.before

\* C10: for every class and every vector v of min(Cols, Rows) components,
\* from_diagonal(v).diagonal() is v and every element of from_diagonal(v) off
\* the diagonal is zero.
FromDiagonalRoundTrips ==
    last.op = "from_diagonal" =>
        /\ Returned
        /\ Shape[last.ret.type] = Shape[cls]
        /\ diagonal(last.ret.type, last.ret.data).ret = last.args[1]
        /\ \A c \in 0..(Cols(cls) - 1) : \A r \in 0..(Rows(cls) - 1) :
              c # r => last.ret.data[c][r] = 0

\* from_diagonal() of a non-square class, with a non-zero last component
FromDiagonalNonSquare ==
    /\ last.op = "from_diagonal"
    /\ Cols(cls) > Rows(cls)
    /\ last.args[1].data[Rows(cls) - 1] # 0

\* C11: for every square matrix A of size N in {2, 3, 4}, A @ identity(N) == A
\* and identity(N) @ A == A, identity(N) being identity_init with its default
\* value: ones on the diagonal, zeros elsewhere.
IdentityIsNeutral ==
    last.op = "__matmul__" =>
        /\ \A c \in 0..(Cols(cls) - 1) : \A r \in 0..(Rows(cls) - 1) :
              Identity(cls).data[c][r] = IF c = r THEN 1 ELSE 0
        /\ last.args[1].data = Identity(cls).data =>
              /\ Returned
              /\ __eq__(last.ret.type, last.ret.data, last.before).ret = Bool(TRUE)
        /\ last.before = Identity(cls).data =>
              /\ Returned
              /\ __eq__(last.ret.type, last.ret.data, last.args[1].data).ret = Bool(TRUE)

\* identity(4) @ A has returned, A not the identity and not symmetric
IdentityTimesReturned ==
    /\ last.op = "__matmul__"
    /\ Returned
    /\ cls = "Matrix4"
    /\ last.before = Identity(cls).data
    /\ last.args[1].data[0][1] # last.args[1].data[1][0]

\* Row i of the matrix m of n columns, times the vector v.
RECURSIVE RowTimesVector(_, _, _, _)
RowTimesVector(n, m, v, i) ==
    IF n = 0 THEN 0 ELSE RowTimesVector(n - 1, m, v, i) + m[n - 1][i] * v[n - 1]

\* C12: m * vector on a (Cols x Rows) matrix takes a vector of Cols components
\* and returns a vector of Rows components, component i being the dot product
\* of row i of the matrix with the vector; the matrix is left as it was.
MatrixTimesVector ==
    last.op = "__mul__vector" =>
        /\ last.args[1].type = VectorTraits(Cols(cls))
        /\ Returned
        /\ last.ret.type = VectorTraits(Rows(cls))
        /\ DOMAIN last.ret.data = 0..(Rows(cls) - 1)
        /\ \A i \in 0..(Rows(cls) - 1) :
              last.ret.data[i] = RowTimesVector(Cols(cls), last.before, last.args[1].data, i)
        /\ self = last.before

\* a matrix of 4 columns and 2 rows times a vector, a component of the result
\* being a sum of more than one non-zero term
MatrixTimesVectorSummed ==
    /\ last.op = "__mul__vector"
    /\ cls = "Matrix4x2"
    /\ Returned
    /\ \E i \in 0..1 : last.ret.data[i] > MaxVal * MaxVal

\* C13: in every interleaving of read-only calls (column and element get,
\* diagonal, transposed, flipped_cols, flipped_rows, arithmetic returning a new
\* value) made by several contexts on one instance, each call returns what it
\* returns when it runs alone, and the instance stays as it was.
ConcurrentReadsAgree ==
    /\ self = orig
    /\ \A c \in Contexts :
          pending[c].state = "done" =>
              /\ pending[c].ret = Read(cls, orig, pending[c]).ret
              /\ pending[c].err = Read(cls, orig, pending[c]).err

\* a context has returned from flipped_cols while another was inside a call,
\* with a result that differs from the instance
OverlappedRead ==
    \E c \in Contexts :
        /\ pending[c].state = "done"
        /\ pending[c].overlapped
        /\ pending[c].op = "flipped_cols"
        /\ pending[c].ret.data # orig

\* The items produced so far are the columns 0, 1, ... in order, and an
\* iteration that has ended was ended by IndexError at index Cols, after as
\* many items as __len__ returns.
IterationInOrder ==
    /\ iter.next = Len(iter.items)
    /\ iter.next <= Cols(cls)
    /\ \A k \in 1..Len(iter.items) : iter.items[k] = Vec(Rows(cls), orig[k - 1])
    /\ iter.done =>
          /\ last.op = "__getitem__"
          /\ last.err = "IndexError"
          /\ last.args[1].data = Cols(cls)
          /\ Len(iter.items) = __len__(cls).data
          /\ __len__(cls).data = Cols(cls)

\* C14: iteration over a matrix by the index protocol terminates: the requests
\* m[0], m[1], m[2], ... yield the columns 0..Cols-1 in order and then
\* IndexError at index Cols, so the number of items is the value of __len__.
IterationTerminates == []IterationInOrder /\ <>iter.done

\* the iteration over a matrix of 4 columns and 2 rows has ended
IterationEnded ==
    /\ iter.done
    /\ cls = "Matrix4x2"
    /\ Len(iter.items) = 4
    /\ \E k \in 1..4 : iter.items[k].data # Splat(2, 0)

\* C15: a column set m[i] = v with i >= Cols and an element set
\* m[col, row] = x with col >= Cols or row >= Rows raise IndexError and leave
\* every element of m as it was before the call.
FailedSetChangesNothing ==
    (last.op \in Setters /\ OutOfRange) =>
        /\ last.err = "IndexError"
        /\ \A c \in 0..(Cols(cls) - 1) : \A r \in 0..(Rows(cls) - 1) :
              self[c][r] = last.before[c][r]

\* a column set of a non-zero vector was refused
ColumnSetOfValueRefused ==
    /\ last.op = "__setitem__"
    /\ last.args[1].data >= Cols(cls)
    /\ last.err = "IndexError"
    /\ \E r \in 0..(Rows(cls) - 1) : last.args[2].data[r] # 0

\* C16: a column set m[i] = v that returns changes column i only; an element
\* set m[col, row] = x that returns changes the element at (col, row) only,
\* the rest of column col included; afterwards m[col, row] is x and is
\* component row of m[col].
SettersChangeOnlyTheirTarget ==
    /\ (last.op = "__setitem__" /\ Returned) =>
          /\ self[last.args[1].data] = last.args[2].data
          /\ \A c \in 0..(Cols(cls) - 1) :
                c # last.args[1].data => self[c] = last.before[c]
    /\ (last.op = "__setitem__element" /\ Returned) =>
          LET col == last.args[1].data[1]
              row == last.args[1].data[2]
          IN  /\ \A c \in 0..(Cols(cls) - 1) : \A r \in 0..(Rows(cls) - 1) :
                    <<c, r>> # <<col, row>> => self[c][r] = last.before[c][r]
              /\ __getitem__element(cls, self, <<col, row>>).ret = last.args[2]
              /\ __getitem__(cls, self, col).ret.data[row] = last.args[2].data

\* an element set has changed an element of a column that holds a non-zero
\* element in another row
ElementSetBesideAnother ==
    /\ last.op = "__setitem__element"
    /\ Returned
    /\ self # last.before
    /\ \E r \in 0..(Rows(cls) - 1) :
          r # last.args[1].data[2] /\ self[last.args[1].data[1]][r] # 0

\* C17: for each of the nine classes (c1 x r1) and each column count c2 of a
\* bound class there is exactly one __matmul__ overload; its right operand
\* has shape (c2 x c1) and its result, of shape (c2 x r1), is one of the nine
\* classes.  There is no overload for a right operand whose row count is not
\* c1: such a call matches nothing, every other call returns.
OverloadsCompleteAndClosed ==
    /\ \A T \in RectClasses : \A c2 \in {Cols(U) : U \in RectClasses} :
          LET found == {o \in matmulOverloads : o[1] = T /\ Cols(o[2]) = c2}
          IN  /\ Cardinality(found) = 1
              /\ \A o \in found :
                    /\ o[2] \in RectClasses
                    /\ Shape[o[2]] = <<c2, Cols(T)>>
                    /\ o[3] \in RectClasses
                    /\ Shape[o[3]] = <<c2, Rows(T)>>
    /\ \A o \in matmulOverloads : o[1] \in RectClasses /\ Rows(o[2]) = Cols(o[1])
    /\ last.op = "__matmul__" =>
          /\ Rows(last.args[1].type) # Cols(cls) => last.err = "TypeError"
          /\ Rows(last.args[1].type) = Cols(cls) =>
                (Returned /\ last.ret.type \in RectClasses)

\* a Matrix2x3 was multiplied by a matrix of 2 columns and 3 rows, for which
\* there is no overload
NoOverloadMatched ==
    /\ last.op = "__matmul__"
    /\ cls = "Matrix2x3"
    /\ last.args[1].type = "Matrix2x3"
    /\ last.err = "TypeError"

====
